---------------------------- MODULE Spec2Model ----------------------------
(***************************************************************************)
(* Model of the diary back end of web18_Dandi: DiariesService (the mood    *)
(* and summary pipeline run by saveDiary / updateDiary) and                *)
(* ReactionsService, both in src/unnamed/part_001.                         *)
(*                                                                         *)
(* Strings.  A JavaScript string is a sequence of characters.  The state   *)
(* holds strings run-length encoded (a sequence of <<character, count>>    *)
(* runs, maximal runs only, so that equal strings have equal encodings);   *)
(* Chars decodes, Pack encodes, and every string operation of the code     *)
(* (replace, length, substring, slice) is computed on the decoded          *)
(* character sequence.                                                     *)
(*                                                                         *)
(* Numbers.  Sentiment confidences are modelled as natural numbers, so     *)
(* that += is exact; sum / totalNumber > 50 is decided on the exact        *)
(* quotient (see Exceeds).                                                 *)
(***************************************************************************)
EXTENDS Integers, Sequences, FiniteSets, TLC

Min(a, b) == IF a <= b THEN a ELSE b
Max(a, b) == IF a >= b THEN a ELSE b

-----------------------------------------------------------------------------
(* Strings *)

RECURSIVE Chars(_)
Chars(s) ==
    IF s = <<>> THEN <<>>
    ELSE [k \in 1..s[1][2] |-> s[1][1]] \o Chars(Tail(s))

\* The positions at which a run starts, and the run-length encoding: run k
\* goes from the k-th of them to the next.
RunStarts(cs) == {k \in 1..Len(cs) : k = 1 \/ cs[k] # cs[k - 1]}
Pack(cs) ==
    LET starts == RunStarts(cs)
        n      == Cardinality(starts)
        nth    == [k \in 1..n |->
                     CHOOSE b \in starts : Cardinality({x \in starts : x < b}) = k - 1]
    IN  [k \in 1..n |->
           <<cs[nth[k]], (IF k = n THEN Len(cs) + 1 ELSE nth[k + 1]) - nth[k]>>]

\* String.prototype.length
Length(s) == Len(Chars(s))

\* String.prototype.substring(start, end): both clamped to [0, length], swapped
\* when start > end.
Substring(s, start, end) ==
    LET cs == Chars(s)
        a  == Max(0, Min(start, Len(cs)))
        b  == Max(0, Min(end, Len(cs)))
    IN  Pack(SubSeq(cs, Min(a, b) + 1, Max(a, b)))

\* String.prototype.slice(start, end): a negative index counts from the end,
\* both are clamped to [0, length], empty when start >= end.
Slice(s, start, end) ==
    LET cs == Chars(s)
        a  == IF start < 0 THEN Max(Len(cs) + start, 0) ELSE Min(start, Len(cs))
        b  == IF end < 0 THEN Max(Len(cs) + end, 0) ELSE Min(end, Len(cs))
    IN  Pack(SubSeq(cs, a + 1, b))

\* The first match of /<img[^>]*>/ at or after position from (1-based): "<img",
\* then the characters up to the first ">" that follows.  <<0, 0>> when none.
ImgStarts(cs, from) ==
    {k \in from..(Len(cs) - 4) :
        /\ cs[k] = "<" /\ cs[k + 1] = "i" /\ cs[k + 2] = "m" /\ cs[k + 3] = "g"
        /\ \E e \in (k + 4)..Len(cs) : cs[e] = ">"}
FirstImg(cs, from) ==
    IF ImgStarts(cs, from) = {} THEN <<0, 0>>
    ELSE LET k == CHOOSE x \in ImgStarts(cs, from) :
                      \A y \in ImgStarts(cs, from) : x <= y
             e == CHOOSE x \in (k + 4)..Len(cs) :
                      cs[x] = ">" /\ \A y \in (k + 4)..(x - 1) : cs[y] # ">"
         IN  <<k, e>>

\* fullContent.replace(/<img[^>]*>/g, ''): every match, leftmost first, each
\* search resuming after the previous match; the result is not searched again.
RECURSIVE StripFrom(_, _)
StripFrom(cs, from) ==
    LET m == FirstImg(cs, from)
    IN  IF m[1] = 0 THEN SubSeq(cs, from, Len(cs))
        ELSE SubSeq(cs, from, m[1] - 1) \o StripFrom(cs, m[2] + 1)

ReplaceImg(s) == Pack(StripFrom(Chars(s), 1))

-----------------------------------------------------------------------------
(* Constants of the code *)

ChunkSize == 1000       \* sumMoodAnalysis: the 1000 of lines 262, 271, 272
SummaryLimit == 2000    \* getSummary: content.substring(0, 2000)
MoodThreshold == 50     \* judgeOverallMood: figure > 50

\* MoodType, in the insertion order of moodStatistics (lines 264-268), which is
\* the order Object.entries yields.
MoodTypes == <<"POSITIVE", "NEGATIVE", "NEUTRAL">>
Categories == {MoodTypes[k] : k \in 1..Len(MoodTypes)}
MoodDegrees == {"SO_BAD", "BAD", "SO_SO", "GOOD", "SO_GOOD"}
Statuses == {"PUBLIC", "PRIVATE"}

\* An optional value: undefined / null, or a value.
None == <<>>
Some(v) == <<v>>

-----------------------------------------------------------------------------
(* Inputs *)

MaxFullChunks == 2      \* contents hold at most this many full chunks

Users == {"u1", "u2"}
Remainders == {0, 1, 500, 999}
ImageRemainders == {0, 500}

\* n plain characters: blocks of 700 "a", 700 "b", 700 "c", 700 "a", ...
PlainChars(n) == [k \in 1..n |-> <<"a", "b", "c">>[(((k - 1) \div 700) % 3) + 1]]
ImgTag == <<"<", "i", "m", "g", " ", "s", ">">>
\* The same characters with an image tag in front, one after the 300th
\* character (or at the end of a shorter text) and one at the very end.
TaggedChars(n) ==
    LET cs == PlainChars(n)
        h  == Min(300, n)
    IN  ImgTag \o SubSeq(cs, 1, h) \o ImgTag \o SubSeq(cs, h + 1, n) \o ImgTag

Lengths == {q * ChunkSize + r : q \in 0..MaxFullChunks, r \in Remainders}
ImageLengths == {q * ChunkSize + r : q \in 0..MaxFullChunks, r \in ImageRemainders}
\* An opening "<img" that is never closed, which the pattern does not match.
UnclosedChars == PlainChars(20) \o <<"<", "i", "m", "g", " ">> \o PlainChars(5)

Contents ==
    {Pack(PlainChars(n)) : n \in Lengths}
        \cup {Pack(TaggedChars(n)) : n \in ImageLengths}
        \cup {Pack(UnclosedChars)}

\* Every content is saved by u1 as a public diary; the other users and
\* statuses come with a short content (the pipeline reads neither).
ShortContents == {Pack(PlainChars(0)), Pack(PlainChars(500))}
SaveDiaryCalls ==
    {<<"u1", [title |-> Pack(<<"T", "1">>), content |-> c, status |-> "PUBLIC"]>> :
        c \in Contents}
    \cup {<<u, [title |-> Pack(<<"T", "1">>), content |-> c, status |-> st]>> :
              u \in Users, c \in ShortContents, st \in Statuses}
\* An update carries a title, a content, both or neither.
UpdateDiaryDtos ==
    {[title |-> None, content |-> c] : c \in {None} \cup {Some(x) : x \in Contents}}
    \cup {[title |-> Some(Pack(<<"T", "2">>)), content |-> c] :
              c \in {None} \cup {Some(x) : x \in ShortContents \cup {Pack(TaggedChars(2500))}}}

-----------------------------------------------------------------------------
(* The two external services, as the code sees them: whether fetch resolves,
   the HTTP status, whether response.json() resolves, and the parsed body. *)

\* What the summarization service answers for a document, when it answers.
Summarize(title, content) == [title |-> title, content |-> content]

SummaryResponses ==
    { [fetch |-> "rejects",  status |-> 0,   json |-> "rejects",  hasSummary |-> FALSE],
      [fetch |-> "resolves", status |-> 200, json |-> "resolves", hasSummary |-> TRUE],
      [fetch |-> "resolves", status |-> 200, json |-> "resolves", hasSummary |-> FALSE],
      [fetch |-> "resolves", status |-> 400, json |-> "resolves", hasSummary |-> FALSE],
      [fetch |-> "resolves", status |-> 500, json |-> "rejects",  hasSummary |-> FALSE] }

Confidence(p, n, u) == [c \in Categories |->
    CASE c = "POSITIVE" -> p [] c = "NEGATIVE" -> n [] OTHER -> u]
Confidences ==
    { Confidence(60, 10, 5), Confidence(10, 10, 10), Confidence(30, 0, 0),
      Confidence(10, 70, 20), Confidence(5, 20, 70) }
\* A confidence object that lacks categories.
PartialConfidences == { [c \in {"POSITIVE"} |-> 30], [c \in {} |-> 0] }

SentimentResponses ==
    { [fetch |-> "rejects",  status |-> 0,   json |-> "rejects",
       hasDocument |-> FALSE, confidence |-> None],
      [fetch |-> "resolves", status |-> 500, json |-> "rejects",
       hasDocument |-> FALSE, confidence |-> None],
      [fetch |-> "resolves", status |-> 400, json |-> "resolves",
       hasDocument |-> FALSE, confidence |-> None],
      [fetch |-> "resolves", status |-> 200, json |-> "resolves",
       hasDocument |-> TRUE,  confidence |-> None],
      [fetch |-> "resolves", status |-> 500, json |-> "resolves",
       hasDocument |-> TRUE,  confidence |-> Some(Confidence(30, 0, 0))] }
    \cup { [fetch |-> "resolves", status |-> 200, json |-> "resolves",
            hasDocument |-> TRUE, confidence |-> Some(c)] :
              c \in Confidences \cup PartialConfidences }

-----------------------------------------------------------------------------
(* State *)

VARIABLES
    diaries,          \* DiariesRepository: the stored diaries, diaries[id]
    pc,               \* where the handler in progress stands
    op,               \* the handler in progress
    user,             \* its user argument
    dto,              \* its createDiaryDto / updateDiaryDto argument
    diary,            \* saveDiary's diary / updateDiary's existingDiary
    fullContent,      \* the content handed to getSummary and judgeOverallMood
    summaryRequest,   \* the document posted to the summarization service
    plainContent,     \* sumMoodAnalysis: plainContent
    numberOfChunk,    \* sumMoodAnalysis: numberOfChunk
    i,                \* sumMoodAnalysis: the loop index
    moodStatistics,   \* sumMoodAnalysis: moodStatistics
    submitted,        \* the contents posted to the sentiment service, in order
    summaryResponse,  \* the summarization service's answer
    failedChunk,      \* index of the first chunk whose sentiment call failed, or 0
    error,            \* the exception the handler ended with
    results,          \* the per-chunk analyses of one aggregation
    added,            \* the indices of those already added to moodStatistics
    reactions,        \* ReactionsRepository: the stored reactions
    nextReactionId,   \* the id the next inserted reaction gets
    calls,            \* the ReactionsService call each client has in progress
    requests,         \* the findDiary / updateDiary / deleteDiary call of each client
    deleted           \* DiariesRepository: the ids of the soft-deleted diaries

diaryVars == <<diaries, pc, op, user, dto, diary, fullContent, summaryRequest,
               plainContent, numberOfChunk, i, moodStatistics, submitted,
               summaryResponse, failedChunk, error>>
aggregateVars == <<results, added>>
reactionVars == <<reactions, nextReactionId, calls>>
accessVars == <<requests, deleted>>

\* What the specification of each service calls a failed call (spec sections
\* 4.2, 6 and 7): the endpoint unreachable, a non-success status, or a payload
\* without the expected fields.
SummaryCallFails(r) ==
    \/ r.fetch = "rejects"
    \/ r.status \notin 200..299
    \/ r.json = "rejects"
    \/ ~r.hasSummary
SentimentCallFails(r) ==
    \/ r.fetch = "rejects"
    \/ r.status \notin 200..299
    \/ r.json = "rejects"
    \/ ~r.hasDocument
    \/ r.confidence = None
    \/ DOMAIN r.confidence[1] # Categories

ZeroStatistics == [c \in Categories |-> 0]
NoDiary == [id |-> 0, author |-> "", title |-> <<>>, content |-> <<>>,
            status |-> "", summary |-> None, mood |-> None]

\* A diary saveDiary has stored: 500 plain characters, one chunk answered
\* POSITIVE 30, hence GOOD.
SeedDiary(st) ==
    [id |-> 1, author |-> "u1", title |-> Pack(<<"T", "1">>),
     content |-> Pack(PlainChars(500)), status |-> st,
     summary |-> Some(Summarize(Pack(<<"T", "1">>), Pack(PlainChars(500)))),
     mood |-> Some("GOOD")]
SeedRepository == <<SeedDiary("PUBLIC")>>

Idle ==
    /\ pc = "idle" /\ op = "none" /\ user = "" /\ dto = None /\ diary = NoDiary
    /\ fullContent = <<>> /\ summaryRequest = None /\ plainContent = <<>>
    /\ numberOfChunk = 0 /\ i = 0 /\ moodStatistics = ZeroStatistics
    /\ submitted = <<>> /\ summaryResponse = None /\ failedChunk = 0
    /\ error = "none"

-----------------------------------------------------------------------------
(* DiariesService *)

\* A JavaScript string (or an absent one) in a condition: undefined and ""
\* are falsy.
Truthy(opt) == opt # None /\ opt[1] # <<>>

\* existsDiary (a BadRequestException) and checkAuthorization (a
\* ForbiddenException), in findDiary's order.  readMode is FALSE also for the
\* callers that pass no third argument (undefined is falsy).
ExistsDiary(id) == id \in DOMAIN diaries
CheckAuthorizationIgnoresStatus(author, u, status, readMode) ==
    ~(~readMode /\ author # u)
CheckAuthorization(author, u, status, readMode) ==
    ~((~readMode \/ status = "PRIVATE") /\ author # u)
FindDiaryError(u, id, readMode) ==
    IF ~ExistsDiary(id) THEN "BadRequestException"
    ELSE IF ~CheckAuthorization(diaries[id].author, u, diaries[id].status, readMode)
         THEN "ForbiddenException"
         ELSE "none"

\* sumMoodAnalysis, lines 271-272: the bounds of chunk k.
ChunkStart(k) == k * ChunkSize
ChunkEndInclusive(k, n, plain) ==
    IF k < n - 1 THEN ChunkStart(k) + ChunkSize - 1
    ELSE ChunkStart(k) + (Length(plain) % ChunkSize)
ChunkEnd(k, n, plain) ==
    IF k < n - 1 THEN ChunkStart(k) + ChunkSize
    ELSE ChunkStart(k) + (Length(plain) % ChunkSize)
\* The loop goes on: i < numberOfChunk and no break.
LoopContinuesNoBreak(k, n, plain) == k < n
LoopContinues(k, n, plain) == k < n /\ ChunkStart(k) # ChunkEnd(k, n, plain)

\* Lines 280-282: every key of the analysis is added to its sum.
AddAnalysisOverwrites(statistics, analysis) ==
    [c \in Categories |-> IF c \in DOMAIN analysis THEN analysis[c] ELSE statistics[c]]
AddAnalysis(statistics, analysis) ==
    [c \in Categories |->
        IF c \in DOMAIN analysis THEN statistics[c] + analysis[c] ELSE statistics[c]]

\* analyzeMood throws when fetch or response.json() rejects and when the body
\* has no document (line 301: a property of undefined); an absent confidence
\* is returned as undefined and Object.keys throws on it (line 280).
AnalyzeMoodThrows(r) ==
    \/ r.fetch = "rejects"
    \/ r.json = "rejects"
    \/ ~r.hasDocument
    \/ r.confidence = None

\* getSummary throws when fetch or response.json() rejects; a body without a
\* summary yields undefined.
GetSummaryThrows(r) == r.fetch = "rejects" \/ r.json = "rejects"

\* judgeOverallMood, lines 238-240: reduce without an initial value starts
\* from the first entry and keeps the current maximum unless a later entry is
\* strictly greater.
MaxEntryLastWins(max, cur) == IF cur[2] >= max[2] THEN cur ELSE max
MaxEntry(max, cur) == IF cur[2] > max[2] THEN cur ELSE max
RECURSIVE ReduceFrom(_, _, _)
ReduceFrom(entries, k, acc) ==
    IF k > Len(entries) THEN acc
    ELSE ReduceFrom(entries, k + 1, MaxEntry(acc, entries[k]))
Entries(statistics) ==
    [k \in 1..Len(MoodTypes) |-> <<MoodTypes[k], statistics[MoodTypes[k]]>>]

\* sum / totalNumber > limit on non-negative numbers: the quotient of a
\* division by zero is Infinity (sum > 0) or NaN (sum = 0, never greater).
Exceeds(sum, totalNumber, limit) ==
    IF totalNumber = 0 THEN sum > 0 ELSE sum > limit * totalNumber

\* judgeOverallMood, lines 238-257.
JudgeMood(statistics, totalNumber) ==
    LET top == ReduceFrom(Entries(statistics), 2, Entries(statistics)[1])
    IN  CASE top[1] = "POSITIVE" ->
               IF Exceeds(top[2], totalNumber, MoodThreshold) THEN "SO_GOOD" ELSE "GOOD"
          [] top[1] = "NEGATIVE" ->
               IF Exceeds(top[2], totalNumber, MoodThreshold) THEN "SO_BAD" ELSE "BAD"
          [] OTHER -> "SO_SO"

\* saveDiary, lines 87-94: the entity is built from the dto (tags, thumbnail
\* and emotion play no part in the pipeline and are left out).
SaveDiary(u, createDiaryDto) ==
    /\ pc = "idle"
    /\ op' = "saveDiary"
    /\ user' = u
    /\ dto' = Some(createDiaryDto)
    /\ diary' = [id |-> 0, author |-> u, title |-> createDiaryDto.title,
                 content |-> createDiaryDto.content, status |-> createDiaryDto.status,
                 summary |-> None, mood |-> None]
    /\ fullContent' = createDiaryDto.content
    /\ pc' = "getSummary"
    /\ UNCHANGED <<diaries, summaryRequest, plainContent, numberOfChunk, i,
                   moodStatistics, submitted, summaryResponse, failedChunk, error>>
    /\ UNCHANGED <<aggregateVars, reactionVars, accessVars>>

\* updateDiary, lines 115-119: every truthy field of the dto overwrites the
\* entity's.  A status is a non-empty string, truthy whenever the key is there.
HasStatus(updateDiaryDto) ==
    "status" \in DOMAIN updateDiaryDto /\ updateDiaryDto.status # None
MergeDtoKeepsContent(existingDiary, updateDiaryDto) ==
    [existingDiary EXCEPT
        !.title = IF Truthy(updateDiaryDto.title) THEN updateDiaryDto.title[1] ELSE @,
        !.status = IF HasStatus(updateDiaryDto) THEN updateDiaryDto.status[1] ELSE @]
MergeDto(existingDiary, updateDiaryDto) ==
    [existingDiary EXCEPT
        !.title = IF Truthy(updateDiaryDto.title) THEN updateDiaryDto.title[1] ELSE @,
        !.content = IF Truthy(updateDiaryDto.content) THEN updateDiaryDto.content[1] ELSE @,
        !.status = IF HasStatus(updateDiaryDto) THEN updateDiaryDto.status[1] ELSE @]
\* Line 121: summary and mood are computed again when the dto has a content.
RecomputeNeeded(updateDiaryDto) == Truthy(updateDiaryDto.content)

\* updateDiary, lines 111-124: findDiary in write mode, the merge, and the
\* choice of line 121.
UpdateDiary(id, u, updateDiaryDto) ==
    /\ pc = "idle"
    /\ op' = "updateDiary"
    /\ user' = u
    /\ dto' = Some(updateDiaryDto)
    /\ IF FindDiaryError(u, id, FALSE) # "none"
       THEN /\ error' = FindDiaryError(u, id, FALSE)
            /\ pc' = "failed"
            /\ UNCHANGED <<diary, fullContent>>
       ELSE /\ diary' = MergeDto(diaries[id], updateDiaryDto)
            /\ IF RecomputeNeeded(updateDiaryDto)
               THEN fullContent' = updateDiaryDto.content[1] /\ pc' = "getSummary"
               ELSE fullContent' = fullContent /\ pc' = "save"
            /\ error' = error
    /\ UNCHANGED <<diaries, summaryRequest, plainContent, numberOfChunk, i,
                   moodStatistics, submitted, summaryResponse, failedChunk>>
    /\ UNCHANGED <<aggregateVars, reactionVars, accessVars>>

\* getSummary, lines 212-233, and the assignment of its result.
GetSummary ==
    /\ pc = "getSummary"
    /\ summaryRequest' =
         Some([title |-> diary.title,
               content |-> Substring(fullContent, 0, SummaryLimit)])
    /\ \E r \in SummaryResponses :
          /\ summaryResponse' = Some(r)
          /\ IF GetSummaryThrows(r)
             THEN /\ error' = "SummaryError"
                  /\ pc' = "failed"
                  /\ diary' = diary
             ELSE /\ diary' = [diary EXCEPT !.summary =
                                 IF r.hasSummary
                                 THEN Some(Summarize(summaryRequest'[1].title,
                                                     summaryRequest'[1].content))
                                 ELSE None]
                  /\ pc' = "judgeOverallMood"
                  /\ error' = error
    /\ UNCHANGED <<diaries, op, user, dto, fullContent, plainContent, numberOfChunk, i,
                   moodStatistics, submitted, failedChunk>>
    /\ UNCHANGED <<aggregateVars, reactionVars, accessVars>>

\* sumMoodAnalysis, lines 261-270: up to the loop.
SumMoodAnalysis ==
    /\ pc = "judgeOverallMood"
    /\ plainContent' = ReplaceImg(fullContent)
    /\ numberOfChunk' = (Length(plainContent') \div ChunkSize) + 1
    /\ moodStatistics' = ZeroStatistics
    /\ i' = 0
    /\ pc' = "sumMoodAnalysis"
    /\ UNCHANGED <<diaries, op, user, dto, diary, fullContent, summaryRequest, submitted,
                   summaryResponse, failedChunk, error>>
    /\ UNCHANGED <<aggregateVars, reactionVars, accessVars>>

\* One turn of the loop, lines 270-283: the chunk is posted, and the answer is
\* added to the statistics unless the call throws.
AnalyzeMood ==
    /\ pc = "sumMoodAnalysis"
    /\ LoopContinues(i, numberOfChunk, plainContent)
    /\ submitted' = Append(submitted,
           Slice(plainContent, ChunkStart(i), ChunkEnd(i, numberOfChunk, plainContent)))
    /\ \E r \in SentimentResponses :
          /\ failedChunk' = IF failedChunk = 0 /\ SentimentCallFails(r) THEN i + 1
                            ELSE failedChunk
          /\ IF AnalyzeMoodThrows(r)
             THEN /\ error' = "AnalysisError"
                  /\ pc' = "failed"
                  /\ UNCHANGED <<moodStatistics, i>>
             ELSE /\ moodStatistics' = AddAnalysis(moodStatistics, r.confidence[1])
                  /\ i' = i + 1
                  /\ UNCHANGED <<error, pc>>
    /\ UNCHANGED <<diaries, op, user, dto, diary, fullContent, summaryRequest,
                   plainContent, numberOfChunk, summaryResponse>>
    /\ UNCHANGED <<aggregateVars, reactionVars, accessVars>>

\* The loop ends (line 270 or the break of line 275), sumMoodAnalysis returns
\* [moodStatistics, numberOfChunk] and judgeOverallMood classifies them.
JudgeOverallMood ==
    /\ pc = "sumMoodAnalysis"
    /\ ~LoopContinues(i, numberOfChunk, plainContent)
    /\ diary' = [diary EXCEPT !.mood = Some(JudgeMood(moodStatistics, numberOfChunk))]
    /\ pc' = "save"
    /\ UNCHANGED <<diaries, op, user, dto, fullContent, summaryRequest, plainContent,
                   numberOfChunk, i, moodStatistics, submitted, summaryResponse,
                   failedChunk, error>>
    /\ UNCHANGED <<aggregateVars, reactionVars, accessVars>>

\* diariesRepository.save, lines 98 and 126: a new entity gets the next id, a
\* loaded one replaces its row.
RepositorySave ==
    /\ pc = "save"
    /\ diaries' = IF diary.id = 0
                  THEN Append(diaries, [diary EXCEPT !.id = Len(diaries) + 1])
                  ELSE [diaries EXCEPT ![diary.id] = diary]
    /\ pc' = "done"
    /\ UNCHANGED <<op, user, dto, diary, fullContent, summaryRequest, plainContent,
                   numberOfChunk, i, moodStatistics, submitted, summaryResponse,
                   failedChunk, error>>
    /\ UNCHANGED <<aggregateVars, reactionVars, accessVars>>

-----------------------------------------------------------------------------
(* The accumulation of sumMoodAnalysis (lines 264-283), fed the analyses of a
   fixed collection of chunks in an arbitrary order. *)

MaxResults == 3         \* an aggregation holds at most this many analyses

Analyses == Confidences \cup PartialConfidences
ResultSequences == UNION {[1..n -> Analyses] : n \in 0..MaxResults}

\* Lines 280-282 for the analysis of chunk k, whichever chunks came before.
AddResult(k) ==
    /\ pc = "aggregate"
    /\ k \in DOMAIN results \ added
    /\ moodStatistics' = AddAnalysis(moodStatistics, results[k])
    /\ i' = i + 1
    /\ added' = added \cup {k}
    /\ UNCHANGED <<diaries, pc, op, user, dto, diary, fullContent, summaryRequest,
                   plainContent, numberOfChunk, submitted, summaryResponse,
                   failedChunk, error, results, reactionVars, accessVars>>

-----------------------------------------------------------------------------
(* ReactionsService.  Every await is a point at which another request may run;
   the repository calls are single reads and writes of the reactions table.
   ReactionsRepository is not part of the sources: its finders are taken to
   match on exactly the fields they name, save to insert an entity without id
   and to write an entity with one, remove to delete by id, and the table to
   have no uniqueness constraint of its own. *)

MaxReactionIds == 3     \* at most this many reactions are ever inserted

Clients == {"c1", "c2"}
ReactionValues == {"like", "sad"}
ReactionOps == {"saveReaction", "updateReaction", "deleteReaction"}
NoCall == [op |-> "none", pc |-> "idle", user |-> "", diaryId |-> 0,
           reaction |-> "", entity |-> None]

FindReactionByDiaryAndUserAndReaction(u, d, r) ==
    {x \in reactions : x.user = u /\ x.diary = d /\ x.reaction = r}
FindReactionByDiaryAndUser(u, d) ==
    {x \in reactions : x.user = u /\ x.diary = d}
\* save: an entity without id is inserted under the next id; one with an id
\* replaces the row of that id.
SaveReactionEntity(entity) ==
    IF entity.id = 0
    THEN /\ reactions' = reactions \cup {[entity EXCEPT !.id = nextReactionId]}
         /\ nextReactionId' = nextReactionId + 1
    ELSE /\ reactions' = {x \in reactions : x.id # entity.id} \cup {entity}
         /\ nextReactionId' = nextReactionId
RemoveReactionEntity(entity) ==
    /\ reactions' = {x \in reactions : x.id # entity.id}
    /\ nextReactionId' = nextReactionId

Return(c) == calls' = [calls EXCEPT ![c] = NoCall]
Goto(c, label) == calls' = [calls EXCEPT ![c].pc = label]

\* A request arrives: saveReaction, updateReaction or deleteReaction is called
\* and awaits findDiary (lines 19, 34, 46).
ReactionRequest(c, o, u, d, r) ==
    /\ calls[c].pc = "idle"
    /\ calls' = [calls EXCEPT ![c] = [op |-> o, pc |-> "findDiary", user |-> u,
                                       diaryId |-> d, reaction |-> r, entity |-> None]]
    /\ UNCHANGED <<diaryVars, aggregateVars, reactions, nextReactionId, accessVars>>

\* findDiary(user, diaryId) resolves or throws; no readMode is passed.
ReactionFindDiary(c) ==
    /\ calls[c].pc = "findDiary"
    /\ IF FindDiaryError(calls[c].user, calls[c].diaryId, FALSE) # "none"
       THEN Return(c)
       ELSE Goto(c, "find")
    /\ UNCHANGED <<diaryVars, aggregateVars, reactions, nextReactionId, accessVars>>

\* saveReaction, lines 21-28: the duplicate check.
SaveReactionCheck(c) ==
    /\ calls[c].op = "saveReaction" /\ calls[c].pc = "find"
    /\ IF FindReactionByDiaryAndUserAndReaction(
              calls[c].user, calls[c].diaryId, calls[c].reaction) # {}
       THEN Return(c)
       ELSE Goto(c, "write")
    /\ UNCHANGED <<diaryVars, aggregateVars, reactions, nextReactionId, accessVars>>

\* saveReaction, line 30: the insert.
SaveReactionInsert(c) ==
    /\ calls[c].op = "saveReaction" /\ calls[c].pc = "write"
    /\ nextReactionId <= MaxReactionIds
    /\ SaveReactionEntity([id |-> 0, user |-> calls[c].user,
                           diary |-> calls[c].diaryId, reaction |-> calls[c].reaction])
    /\ Return(c)
    /\ UNCHANGED <<diaryVars, aggregateVars, accessVars>>

\* updateReaction, lines 35-41: one reaction of the user on the diary is
\* loaded, whichever the repository returns, and given the new value.
UpdateReactionLoad(c) ==
    /\ calls[c].op = "updateReaction" /\ calls[c].pc = "find"
    /\ IF FindReactionByDiaryAndUser(calls[c].user, calls[c].diaryId) = {}
       THEN Return(c)
       ELSE \E x \in FindReactionByDiaryAndUser(calls[c].user, calls[c].diaryId) :
               calls' = [calls EXCEPT
                           ![c].pc = "write",
                           ![c].entity = Some([x EXCEPT !.reaction = calls[c].reaction])]
    /\ UNCHANGED <<diaryVars, aggregateVars, reactions, nextReactionId, accessVars>>

\* updateReaction, line 42.
UpdateReactionSave(c) ==
    /\ calls[c].op = "updateReaction" /\ calls[c].pc = "write"
    /\ SaveReactionEntity(calls[c].entity[1])
    /\ Return(c)
    /\ UNCHANGED <<diaryVars, aggregateVars, accessVars>>

\* deleteReaction, lines 47-55.
DeleteReactionLoad(c) ==
    /\ calls[c].op = "deleteReaction" /\ calls[c].pc = "find"
    /\ IF FindReactionByDiaryAndUserAndReaction(
              calls[c].user, calls[c].diaryId, calls[c].reaction) = {}
       THEN Return(c)
       ELSE \E x \in FindReactionByDiaryAndUserAndReaction(
                        calls[c].user, calls[c].diaryId, calls[c].reaction) :
               calls' = [calls EXCEPT ![c].pc = "write", ![c].entity = Some(x)]
    /\ UNCHANGED <<diaryVars, aggregateVars, reactions, nextReactionId, accessVars>>

\* deleteReaction, line 57.
DeleteReactionRemove(c) ==
    /\ calls[c].op = "deleteReaction" /\ calls[c].pc = "write"
    /\ RemoveReactionEntity(calls[c].entity[1])
    /\ Return(c)
    /\ UNCHANGED <<diaryVars, aggregateVars, accessVars>>

-----------------------------------------------------------------------------
(* Access to stored diaries: findDiary, updateDiary and deleteDiary, called by
   two clients at will.  Every await is a point at which another request may
   run.  DiariesRepository is not part of the sources: findById is taken to
   return the row of that id unless it is soft-deleted, save to write the row
   of the entity's id, and softDelete to mark the row. *)

AccessOps == {"findDiary", "updateDiary", "deleteDiary"}
\* The updates of this part carry no content, so that line 121 is false and
\* the merge is followed by the save.
AccessDtos ==
    {[title |-> Some(Pack(<<"T", "2">>)), content |-> None, status |-> None]}
    \cup {[title |-> None, content |-> None, status |-> Some(st)] : st \in Statuses}
NoRequest == [op |-> "none", pc |-> "idle", user |-> "", id |-> 0,
              readMode |-> FALSE, dto |-> None, entity |-> None,
              checked |-> FALSE, error |-> "none"]
FindById(id) ==
    IF id \in DOMAIN diaries /\ id \notin deleted THEN Some(diaries[id]) ELSE None
SoftDelete(id) == deleted' = deleted \cup {id}

Finish(c, label, err) ==
    requests' = [requests EXCEPT ![c].pc = label, ![c].error = err]

\* A request arrives.  findDiary is called with either readMode; updateDiary
\* and deleteDiary call it with readMode = false (lines 112, 130).
DiaryRequest(c, o, u, id, mode, d) ==
    /\ requests[c].pc \in {"idle", "returned", "threw"}
    /\ o = "findDiary" => d = None
    /\ o = "updateDiary" => d # None /\ ~mode
    /\ o = "deleteDiary" => d = None /\ ~mode
    /\ requests' = [requests EXCEPT ![c] =
                      [op |-> o, pc |-> "findById", user |-> u, id |-> id,
                       readMode |-> mode, dto |-> d, entity |-> None,
                       checked |-> FALSE, error |-> "none"]]
    /\ UNCHANGED <<diaryVars, aggregateVars, reactionVars, deleted>>

\* findDiary, lines 102-103: the diary is loaded and existsDiary looks at it.
FindDiaryLoad(c) ==
    /\ requests[c].pc = "findById"
    /\ IF FindById(requests[c].id) = None
       THEN Finish(c, "threw", "BadRequestException")
       ELSE requests' = [requests EXCEPT ![c].pc = "author",
                                         ![c].entity = FindById(requests[c].id)]
    /\ UNCHANGED <<diaryVars, aggregateVars, reactionVars, deleted>>

\* findDiary, lines 105-108: the author is awaited, checkAuthorization looks
\* at the loaded diary, and findDiary returns it to its caller.
FindDiaryCheck(c) ==
    /\ requests[c].pc = "author"
    /\ IF ~CheckAuthorization(requests[c].entity[1].author, requests[c].user,
                              requests[c].entity[1].status, requests[c].readMode)
       THEN requests' = [requests EXCEPT ![c].pc = "threw", ![c].checked = TRUE,
                                         ![c].error = "ForbiddenException"]
       ELSE requests' = [requests EXCEPT
                           ![c].checked = TRUE,
                           ![c].pc = IF requests[c].op = "findDiary" THEN "returned"
                                     ELSE "write"]
    /\ UNCHANGED <<diaryVars, aggregateVars, reactionVars, deleted>>

\* updateDiary, lines 114-126: the merge into the loaded diary and the save.
UpdateDiarySave(c) ==
    /\ requests[c].op = "updateDiary" /\ requests[c].pc = "write"
    /\ ~RecomputeNeeded(requests[c].dto[1])
    /\ diaries' = [diaries EXCEPT ![requests[c].id] =
                      MergeDto(requests[c].entity[1], requests[c].dto[1])]
    /\ Finish(c, "returned", "none")
    /\ UNCHANGED <<pc, op, user, dto, diary, fullContent, summaryRequest,
                   plainContent, numberOfChunk, i, moodStatistics, submitted,
                   summaryResponse, failedChunk, error>>
    /\ UNCHANGED <<aggregateVars, reactionVars, deleted>>

\* deleteDiary, line 132.
DeleteDiarySoftDelete(c) ==
    /\ requests[c].op = "deleteDiary" /\ requests[c].pc = "write"
    /\ SoftDelete(requests[c].id)
    /\ Finish(c, "returned", "none")
    /\ UNCHANGED <<diaryVars, aggregateVars, reactionVars>>

-----------------------------------------------------------------------------
(* Specifications *)

vars == <<diaryVars, aggregateVars, reactionVars, accessVars>>

NoAggregation == results = <<>> /\ added = {}
NoReactions ==
    reactions = {} /\ nextReactionId = 1 /\ calls = [c \in Clients |-> NoCall]

NoAccess == requests = [c \in Clients |-> NoRequest] /\ deleted = {}

\* One call of saveDiary or updateDiary, from a repository that holds one
\* diary an earlier saveDiary stored.
Init ==
    diaries = SeedRepository /\ Idle /\ NoAggregation /\ NoReactions /\ NoAccess

Next ==
    \/ \E call \in SaveDiaryCalls : SaveDiary(call[1], call[2])
    \/ \E id \in 1..(Len(diaries) + 1), u \in Users, d \in UpdateDiaryDtos :
           UpdateDiary(id, u, d)
    \/ GetSummary
    \/ SumMoodAnalysis
    \/ AnalyzeMood
    \/ JudgeOverallMood
    \/ RepositorySave

Spec == Init /\ [][Next]_vars

\* One aggregation: any collection of analyses, added in any order.
InitAggregate ==
    /\ diaries = SeedRepository /\ NoReactions /\ NoAccess
    /\ pc = "aggregate" /\ op = "none" /\ user = "" /\ dto = None /\ diary = NoDiary
    /\ fullContent = <<>> /\ summaryRequest = None /\ plainContent = <<>>
    /\ numberOfChunk = 0 /\ i = 0 /\ moodStatistics = ZeroStatistics
    /\ submitted = <<>> /\ summaryResponse = None /\ failedChunk = 0
    /\ error = "none"
    /\ results \in ResultSequences
    /\ added = {}

NextAggregate == \E k \in 1..MaxResults : AddResult(k)

SpecAggregate == InitAggregate /\ [][NextAggregate]_vars

\* Two clients calling ReactionsService at will, on the seeded diary
\* repository and an empty reactions table.
InitReactions == Init

NextReactions ==
    \/ \E c \in Clients, o \in ReactionOps, u \in Users,
          d \in 1..(Len(diaries) + 1), r \in ReactionValues :
              ReactionRequest(c, o, u, d, r)
    \/ \E c \in Clients : ReactionFindDiary(c)
    \/ \E c \in Clients : SaveReactionCheck(c)
    \/ \E c \in Clients : SaveReactionInsert(c)
    \/ \E c \in Clients : UpdateReactionLoad(c)
    \/ \E c \in Clients : UpdateReactionSave(c)
    \/ \E c \in Clients : DeleteReactionLoad(c)
    \/ \E c \in Clients : DeleteReactionRemove(c)

SpecReactions == InitReactions /\ [][NextReactions]_vars

\* Two clients calling findDiary, updateDiary and deleteDiary at will, on the
\* seeded repository: a PUBLIC diary of u1.
InitAccess ==
    /\ diaries = SeedRepository
    /\ Idle /\ NoAggregation /\ NoReactions /\ NoAccess

NextAccess ==
    \/ \E c \in Clients, o \in AccessOps, u \in Users,
          id \in 1..(Len(diaries) + 1), mode \in BOOLEAN,
          d \in {None} \cup {Some(x) : x \in AccessDtos} :
              DiaryRequest(c, o, u, id, mode, d)
    \/ \E c \in Clients : FindDiaryLoad(c)
    \/ \E c \in Clients : FindDiaryCheck(c)
    \/ \E c \in Clients : UpdateDiarySave(c)
    \/ \E c \in Clients : DeleteDiarySoftDelete(c)

SpecAccess == InitAccess /\ [][NextAccess]_vars

-----------------------------------------------------------------------------
(* Properties of the mood pipeline *)

\* judgeOverallMood has returned in this call: the diary about to be saved,
\* or saved, carries the mood it computed.
Judged == pc \in {"save", "done"} /\ summaryRequest # None

\* The classification of the specification, section 4.4: the winning category
\* is the first of POSITIVE, NEGATIVE, NEUTRAL whose sum is the largest, and
\* the ratio is its sum over the chunk count.
Winner(statistics) ==
    LET p == statistics["POSITIVE"]
        n == statistics["NEGATIVE"]
        u == statistics["NEUTRAL"]
    IN  IF p >= n /\ p >= u THEN "POSITIVE"
        ELSE IF n >= u THEN "NEGATIVE"
        ELSE "NEUTRAL"
MoodTable(statistics, chunkCount) ==
    LET w     == Winner(statistics)
        above == statistics[w] > MoodThreshold * chunkCount
    IN  IF w = "POSITIVE" THEN (IF above THEN "SO_GOOD" ELSE "GOOD")
        ELSE IF w = "NEGATIVE" THEN (IF above THEN "SO_BAD" ELSE "BAD")
        ELSE "SO_SO"

\* C1: whenever judgeOverallMood returns, with a chunk count above zero, the
\* mood it returns is the one the table gives for the sums and the chunk count
\* it received from sumMoodAnalysis: the first maximal category of POSITIVE,
\* NEGATIVE, NEUTRAL wins, SO_GOOD / SO_BAD when its sum over the chunk count
\* exceeds 50, GOOD / BAD otherwise, SO_SO when NEUTRAL wins.  A three-way tie
\* 10/10/10 over one chunk gives GOOD, and 2500 cleaned characters answered
\* POSITIVE 30 per chunk give sums 90/0/0 over three chunks and GOOD.
C1_MoodFollowsTable ==
    Judged /\ numberOfChunk > 0 =>
        /\ diary.mood = Some(MoodTable(moodStatistics, numberOfChunk))
        /\ (moodStatistics = Confidence(10, 10, 10) /\ numberOfChunk = 1
               => diary.mood = Some("GOOD"))
        /\ (Length(plainContent) = 2500 /\ moodStatistics = Confidence(90, 0, 0)
               => numberOfChunk = 3 /\ diary.mood = Some("GOOD"))
C1_Witness ==
    /\ Judged
    /\ moodStatistics = Confidence(10, 10, 10)
    /\ numberOfChunk = 1
    /\ diary.mood = Some("GOOD")

\* C2: when the content is empty once the image markup is stripped, so that
\* no chunk is analyzed, the mood returned is SO_SO.
C2_EmptyContentIsSoSo ==
    Judged /\ plainContent = <<>> /\ submitted = <<>> => diary.mood = Some("SO_SO")

\* C3: the chunk count sumMoodAnalysis returns, the divisor of the ratio, is
\* the number of chunks it submitted to analyzeMood.
C3_DivisorCountsAnalyzedChunks ==
    Judged => numberOfChunk = Len(submitted)

\* ceil(n / ChunkSize)
CeilChunks(n) == (n + ChunkSize - 1) \div ChunkSize
\* The length of the cleaned text: the content without its image markup.
CleanedLength == Length(plainContent)

\* C4: when sumMoodAnalysis returns, the number of chunks it submitted is
\* ceil(n / 1000) when the cleaned length n is no multiple of 1000, n / 1000
\* when it is a positive multiple, and zero when n is zero.
C4_ChunkCount ==
    Judged =>
        LET n == CleanedLength
        IN  /\ (n % ChunkSize # 0 => Len(submitted) = CeilChunks(n))
            /\ (n % ChunkSize = 0 /\ n > 0 => Len(submitted) = n \div ChunkSize)
            /\ (n = 0 => Len(submitted) = 0)
C4_Witness ==
    /\ Judged
    /\ CleanedLength = 2 * ChunkSize
    /\ Len(submitted) = 2

RECURSIVE ConcatChars(_)
ConcatChars(chunks) ==
    IF chunks = <<>> THEN <<>> ELSE Chars(Head(chunks)) \o ConcatChars(Tail(chunks))
IsPrefix(a, b) == Len(a) <= Len(b) /\ SubSeq(b, 1, Len(a)) = a

\* C5: the chunks submitted so far, in order, concatenate to a prefix of the
\* cleaned text, and to the whole of it once sumMoodAnalysis has returned;
\* each holds between 1 and 1000 characters.
C5_ChunksPartitionCleanedText ==
    LET joined  == ConcatChars(submitted)
        cleaned == Chars(plainContent)
    IN  /\ \A k \in DOMAIN submitted :
               Length(submitted[k]) >= 1 /\ Length(submitted[k]) <= ChunkSize
        /\ submitted # <<>> => IsPrefix(joined, cleaned)
        /\ Judged => joined = cleaned
C5_Witness ==
    /\ Judged
    /\ Len(submitted) = 3
    /\ Length(submitted[3]) = 500
    /\ plainContent # fullContent

\* C6: once a sentiment call has failed (the endpoint unreachable, a
\* non-success status, or a payload without the expected categories), the
\* call of saveDiary / updateDiary has failed with that error: no later chunk
\* is submitted, no mood is returned and the repository save is not reached.
C6_AnalysisFailureAborts ==
    failedChunk # 0 =>
        /\ pc = "failed"
        /\ error = "AnalysisError"
        /\ Len(submitted) = failedChunk
        /\ diaries = SeedRepository

SummaryFailed == summaryResponse # None /\ SummaryCallFails(summaryResponse[1])

\* C7: once the summarization call has failed (the endpoint unreachable, a
\* non-success status, or a response without a summary), getSummary has
\* failed and the save is not reached: no diary is stored without a summary.
C7_SummaryFailureAborts ==
    /\ SummaryFailed =>
           pc = "failed" /\ error = "SummaryError" /\ diaries = SeedRepository
    /\ \A k \in DOMAIN diaries : diaries[k].summary # None

-----------------------------------------------------------------------------
(* Aggregation *)

Score(analysis, c) == IF c \in DOMAIN analysis THEN analysis[c] ELSE 0
\* The sum of category c over the analyses whose indices are in S.
RECURSIVE SumOver(_, _)
SumOver(c, S) ==
    IF S = {} THEN 0
    ELSE LET k == CHOOSE x \in S : TRUE
         IN  Score(results[k], c) + SumOver(c, S \ {k})

-----------------------------------------------------------------------------
(* Derived fields on save and update *)

\* The content a call carries: saveDiary's dto always has one, updateDiary's
\* has one when its content is a non-empty string.
CarriesContent ==
    op = "saveDiary" \/ (op = "updateDiary" /\ Truthy(dto[1].content))
NewContent == IF op = "saveDiary" THEN dto[1].content ELSE dto[1].content[1]
SavedId == IF diary.id = 0 THEN Len(diaries) + 1 ELSE diary.id

\* C9: at the repository save of saveDiary, and of an updateDiary whose dto
\* carries a content, the diary written has that content, the summary the
\* service returned for the diary's title and the first 2000 characters of
\* that content, and the mood judged from the chunks of that content, all
\* obtained earlier in the same call; at the save of an updateDiary without
\* content, the summary and the mood written are the stored ones and neither
\* service was called.
C9_DerivedFieldsFollowContent ==
    [][ pc = "save" /\ pc' = "done" =>
          IF CarriesContent
          THEN /\ diaries'[SavedId].content = NewContent
               /\ op = "updateDiary" =>
                    diaries'[SavedId].title =
                        IF Truthy(dto[1].title) THEN dto[1].title[1]
                        ELSE diaries[SavedId].title
               /\ summaryRequest =
                    Some([title |-> diaries'[SavedId].title,
                          content |-> Pack(SubSeq(Chars(NewContent), 1,
                                             Min(SummaryLimit, Length(NewContent))))])
               /\ summaryResponse # None
               /\ diaries'[SavedId].summary =
                    IF summaryResponse[1].hasSummary
                    THEN Some(Summarize(summaryRequest[1].title,
                                        summaryRequest[1].content))
                    ELSE None
               /\ ConcatChars(submitted) = Chars(ReplaceImg(NewContent))
               /\ diaries'[SavedId].mood = Some(MoodTable(moodStatistics, numberOfChunk))
          ELSE /\ diaries'[SavedId].summary = diaries[SavedId].summary
               /\ diaries'[SavedId].mood = diaries[SavedId].mood
               /\ summaryRequest = None
               /\ submitted = <<>>
      ]_vars
C9_Witness ==
    /\ pc = "done"
    /\ op = "updateDiary"
    /\ Truthy(dto[1].content)
    /\ Truthy(dto[1].title)
    /\ Length(dto[1].content[1]) > SummaryLimit
    /\ diaries[1].content = dto[1].content[1]
    /\ diaries[1].summary = Some(Summarize(dto[1].title[1], summaryRequest[1].content))
    /\ Length(summaryRequest[1].content) = SummaryLimit
    /\ diaries[1].mood # SeedDiary("PUBLIC").mood

-----------------------------------------------------------------------------
(* Reactions *)

\* C10: the reactions table never holds two records with the same user, diary
\* and reaction.
C10_NoDuplicateReaction ==
    \A x, y \in reactions :
        x.user = y.user /\ x.diary = y.diary /\ x.reaction = y.reaction => x = y

-----------------------------------------------------------------------------
(* Access *)

\* findDiary has returned the loaded diary to its caller: to the client, or to
\* updateDiary / deleteDiary, which go on to write.
FindDiaryReturned(c) ==
    \/ requests[c].op = "findDiary" /\ requests[c].pc = "returned"
    \/ requests[c].op \in {"updateDiary", "deleteDiary"}
       /\ requests[c].pc \in {"write", "returned"}
ReturnsOnlyWhenAllowed ==
    \A c \in Clients :
        FindDiaryReturned(c) /\ requests[c].entity[1].author # requests[c].user
            => requests[c].readMode /\ requests[c].entity[1].status # "PRIVATE"
\* A call that found no diary ended with a BadRequestException, without an
\* authorization check.
MissingIsBadRequest ==
    \A c \in Clients :
        requests[c].pc \notin {"idle", "findById"} /\ requests[c].entity = None
            => /\ requests[c].pc = "threw"
               /\ requests[c].error = "BadRequestException"
               /\ ~requests[c].checked
\* Every step that changes or soft-deletes a stored diary is the write of an
\* updateDiary or deleteDiary call made by that diary's author, which loaded
\* the diary and passed the authorization check.
WritesOnlyForAuthor ==
    \A id \in DOMAIN diaries :
        diaries'[id] # diaries[id] \/ (id \in deleted') # (id \in deleted)
            => \E c \in Clients :
                  /\ requests[c].pc = "write" /\ requests'[c].pc = "returned"
                  /\ requests[c].op \in {"updateDiary", "deleteDiary"}
                  /\ requests[c].id = id
                  /\ requests[c].user = diaries[id].author
                  /\ requests[c].entity # None /\ requests[c].checked

\* C11: findDiary returns a diary to a user who is not its author only in read
\* mode and when the diary it loaded is not PRIVATE; no step of updateDiary or
\* deleteDiary changes or soft-deletes a diary for a user who is not its
\* author; and a call for a diary that does not exist ends with a
\* BadRequestException before any authorization check or write.
C11_FindDiaryAuthorization ==
    /\ [](ReturnsOnlyWhenAllowed /\ MissingIsBadRequest)
    /\ [][WritesOnlyForAuthor /\ DOMAIN diaries' = DOMAIN diaries]_vars
\* A non-author has been given a PUBLIC diary in read mode, while a non-author's
\* deleteDiary was refused and the author's updateDiary has made a diary PRIVATE.
C11_Witness ==
    /\ \E c \in Clients :
          /\ requests[c].op = "findDiary" /\ requests[c].pc = "returned"
          /\ requests[c].readMode
          /\ requests[c].entity[1].author # requests[c].user
    /\ \E c \in Clients :
          /\ requests[c].op = "deleteDiary" /\ requests[c].pc = "threw"
          /\ requests[c].error = "ForbiddenException"
    /\ diaries[1].status = "PRIVATE"

=============================================================================
